---- MODULE Spec2Model ----
(***************************************************************************)
(* Model of the batch-dispatch engine of bulk-mail-sender (src/app.py):    *)
(* the background task send_emails_task, the trigger route start_sending,  *)
(* the operator route reset_counter, the persisted counter file and the    *)
(* in-memory LOGS list.                                                    *)
(*                                                                         *)
(* Every POST /api/send starts a new daemon thread running                 *)
(* send_emails_task; each thread is a little state machine whose program   *)
(* counter walks through the statements of the function.  One action of    *)
(* the model is one statement group that touches at most one shared        *)
(* object (LOGS or the counter file), so that the interleavings of the     *)
(* threads of the Flask development server are behaviours of the model.    *)
(*                                                                         *)
(* Three environments are specified over the same actions:                 *)
(*   Spec       requests to /api/send arrive at any time (runs overlap);   *)
(*              no per-message call fails                                  *)
(*   SpecSeq    each request arrives after the previous run has ended;     *)
(*              sendmail, save_counter and the reading of the resume may   *)
(*              fail, up to MaxFaults times                                *)
(*   SpecReset  as SpecSeq, with POST /api/counter/reset at any moment     *)
(***************************************************************************)
EXTENDS Integers, Sequences, FiniteSets, TLC

\* ------------------------------------------------------------------ bounds
\* Largest recipient list drawn for the uploaded file.
MaxLen == 2
\* Largest stopper value stored by POST /api/stopper.
MaxStopper == 2
\* Number of POST /api/send requests issued over a behaviour in which
\* requests may arrive while a run is active (Spec).
MaxRuns == 2
\* Number of POST /api/send requests issued over a behaviour in which each
\* request arrives after the previous run has ended (SpecSeq).
MaxSeqRuns == 3
\* Number of POST /api/counter/reset requests issued over a behaviour.
MaxResets == 1
\* Number of per-message faults (a sendmail call, a save_counter call or the
\* reading of the resume raising) the environment injects over a behaviour of
\* consecutive runs (SpecSeq, SpecReset).
MaxFaults == 2

\* ------------------------------------------------- program constants
\* config.get("stopper", 100)
DefaultStopper == 100

Min(a, b) == IF a <= b THEN a ELSE b

\* --------------------------------------------------------- configuration
\* config.json as the routes of the application can leave it, together with
\* the files of the upload folder it names:
\*   creds        email and password are stored (save_credentials stores
\*                both, clear_credentials deletes both)
\*   has_stopper  a stopper was stored by set_stopper
\*   stopper      its value (a positive integer, set_stopper rejects others)
\*   file         "absent"       no default_file entry
\*                "unparseable"  default_file names a file pd.read_csv rejects
\*                "nocol"        it parses but no column name contains "email"
\*                "list"         it yields a recipient list of n addresses
\*   resume       "none" no resume_file entry, "missing" the entry names a
\*                file that is no longer in the upload folder, "exists"
\*   template     "absent" no current_template body (a built-in is used),
\*                "custom" a stored body that str.format accepts,
\*                "bad" a stored body on which str.format raises
AllConfigs ==
    [ creds : BOOLEAN, has_stopper : BOOLEAN, stopper : 1..MaxStopper,
      file : {"absent", "unparseable", "nocol", "list"}, n : 0..MaxLen,
      resume : {"none", "missing", "exists"},
      template : {"absent", "custom", "bad"} ]

\* Number of fields in which c differs from a complete, plain configuration.
Deviations(c) ==
      (IF c.creds THEN 0 ELSE 1)
    + (IF c.has_stopper THEN 0 ELSE 1)
    + (IF c.file = "list" THEN 0 ELSE 1)
    + (IF c.resume = "none" THEN 0 ELSE 1)
    + (IF c.template = "custom" THEN 0 ELSE 1)

\* The configurations the model draws: the complete, plain configurations with
\* every list length and every stopper, and the configurations with the longest
\* list and the largest stopper in which one field is absent or unusual.
Configs ==
    { c \in AllConfigs :
        \/ Deviations(c) = 0
        \/ /\ Deviations(c) = 1
           /\ c.n = (IF c.file = "list" THEN MaxLen ELSE 0)
           /\ c.stopper = (IF c.has_stopper THEN MaxStopper ELSE 1) }

\* ------------------------------------------------------ pure functions
\* The counter file holds an integer, or is empty/truncated ("corrupt", -1).
Corrupt == -1

\* Mutant of load_counter: the stored value is ignored.
LoadCounterIgnoresFile(f) == 0

\* load_counter(): the stored integer, 0 when the file does not parse
load_counter(f) == IF f = Corrupt THEN 0 ELSE f

\* stopper_value = int(config.get("stopper", 100))
StopperValue(c) == IF c.has_stopper THEN c.stopper ELSE DefaultStopper

\* if not all([sender_email, app_password, csv_file_path])
ConfigComplete(c) == c.creds /\ c.file # "absent"

\* Mutant of EndCounter: the window is not clamped to the list.
EndCounterNoClamp(start, stopper, len) == start + stopper

\* end_counter = min(start_counter + stopper_value, len(email_list))
EndCounter(start, stopper, len) == Min(start + stopper, len)

\* Mutant of Exhausted: a cursor equal to the list length is not recognised.
ExhaustedStrict(start, len) == start > len

\* if start_counter >= len(email_list)
Exhausted(start, len) == start >= len

\* Mutant of CurrentCounter: the count is one too high.
CurrentCounterSkips(i) == i + 2

\* Mutant of CurrentCounter: the index itself is saved, not the count.
CurrentCounterStale(i) == i

\* current_counter = i + 1
CurrentCounter(i) == i + 1

\* Mutant of ResumeMissing: a configured resume that is gone is not noticed.
ResumeMissingUnnoticed(c) == FALSE

\* elif resume_filename: (os.path.exists(resume_path) was false)
ResumeMissing(c) == c.resume = "missing"

\* LOGS.append(...)
log_message(L, ev, k) == Append(L, <<ev, k>>)

\* ------------------------------------------------------------------ state
VARIABLES
    config,       \* config.json and the upload folder (drawn in Init)
    counterFile,  \* email_counter.json: the persisted cursor, or Corrupt
    LOGS,         \* the in-memory log list
    threads,      \* one record per thread started by start_sending
    delivered,    \* per list index, the sendmail calls the relay accepted
    nResets,      \* reset requests served so far
    overlapped,   \* history: a run was started while another was active
    sendFailed,   \* history: a sendmail call raised
    saveFailed,   \* history: a save_counter call of a run raised
    faultsLeft    \* per-message faults the environment may still inject

vars == <<config, counterFile, LOGS, threads, delivered, nResets, overlapped,
          sendFailed, saveFailed, faultsLeft>>

history == <<nResets, overlapped, sendFailed, saveFailed>>

Tids == 1..(IF MaxRuns >= MaxSeqRuns THEN MaxRuns ELSE MaxSeqRuns)

\* pc of a thread that start_sending has not started yet
NotStarted == "idle"
\* the thread returned / the thread died of an unhandled exception
Ended == {"done", "crashed"}

IdleThread ==
    [ pc |-> NotStarted, len |-> 0, start |-> 0, end |-> 0, i |-> 0,
      session |-> "none", hist |-> <<>>, unsaved |-> FALSE ]

\* A thread that has ended: its locals are gone; what remains observable is
\* how it ended and whether it left its SMTP connection open.
EndedThread(how, sess) == [IdleThread EXCEPT !.pc = how, !.session = sess]

NStarted == Cardinality({ t \in Tids : threads[t].pc # NotStarted })

Active(t) == threads[t].pc \notin ({NotStarted} \cup Ended)

ActiveSet == { t \in Tids : Active(t) }

InitWith(faults) ==
    /\ faultsLeft = faults
    /\ config \in Configs
    /\ counterFile = 0
    /\ LOGS = <<>>
    /\ threads = [t \in Tids |-> IdleThread]
    /\ delivered = [k \in 0..(MaxLen - 1) |-> 0]
    /\ nResets = 0
    /\ overlapped = FALSE
    /\ sendFailed = FALSE
    /\ saveFailed = FALSE

\* The relay, the disk and the resume never fail a per-message call.
Init == InitWith(0)

InitSeq == InitWith(MaxFaults)

\* -------------------------------------------------------------- routes
\* POST /api/send: builds send_config and starts a daemon thread; there is
\* no check that another thread is still running.
start_sending ==
    \E t \in Tids :
        /\ threads[t].pc = NotStarted
        /\ \A u \in Tids : u < t => threads[u].pc # NotStarted
        /\ threads' = [threads EXCEPT ![t].pc = "clear"]
        /\ overlapped' = (overlapped \/ ActiveSet # {})
        /\ UNCHANGED <<config, counterFile, LOGS, delivered, nResets,
                       sendFailed, saveFailed, faultsLeft>>

\* POST /api/counter/reset: save_counter(0), then log_message(...).
reset_counter ==
    /\ nResets < MaxResets
    /\ nResets' = nResets + 1
    /\ \/ /\ counterFile' = 0
          /\ LOGS' = log_message(LOGS, "reset", 0)
       \/ \* open() or the write raised: the request fails, nothing is logged
          /\ counterFile' \in {counterFile, Corrupt}
          /\ UNCHANGED LOGS
    /\ UNCHANGED <<config, threads, delivered, overlapped, sendFailed,
                   saveFailed, faultsLeft>>

\* GET /api/logs: return jsonify({'logs': LOGS}), the list as it is at the
\* moment of the request; nothing is written.
get_logs == LOGS

\* ------------------------------------------------ send_emails_task
\* Each action below is the step of one thread t at one program point.
Goto(t, label) == [threads EXCEPT ![t].pc = label]

\* return, or an exception nothing catches
Return(t) == [threads EXCEPT ![t] = EndedThread("done", threads[t].session)]
Raise(t) == [threads EXCEPT ![t] = EndedThread("crashed", threads[t].session)]

\* LOGS.clear()
TaskClear(t) ==
    /\ threads[t].pc = "clear"
    /\ LOGS' = <<>>
    /\ threads' = Goto(t, "started")
    /\ UNCHANGED <<config, counterFile, delivered, history, faultsLeft>>

\* log_message("Email sending process started."), then the config.get calls
\* (int() of a stored stopper or of the default 100 cannot raise).
TaskStarted(t) ==
    /\ threads[t].pc = "started"
    /\ LOGS' = log_message(LOGS, "started", 0)
    /\ threads' = Goto(t, "validate")
    /\ UNCHANGED <<config, counterFile, delivered, history, faultsLeft>>

\* if not all([sender_email, app_password, csv_file_path]): log, return
TaskValidate(t) ==
    /\ threads[t].pc = "validate"
    /\ IF ConfigComplete(config)
         THEN /\ threads' = Goto(t, "load")
              /\ UNCHANGED LOGS
         ELSE /\ LOGS' = log_message(LOGS, "err_config", 0)
              /\ threads' = Return(t)
    /\ UNCHANGED <<config, counterFile, delivered, history, faultsLeft>>

\* try: pd.read_csv(...), find the email column, dropna, strip, tolist
TaskLoadCsv(t) ==
    /\ threads[t].pc = "load"
    /\ CASE config.file = "unparseable" ->
              /\ LOGS' = log_message(LOGS, "err_csv", 0)
              /\ threads' = Return(t)
         [] config.file = "nocol" ->
              /\ LOGS' = log_message(LOGS, "err_nocol", 0)
              /\ threads' = Return(t)
         [] OTHER ->
              /\ LOGS' = log_message(LOGS, "loaded", config.n)
              /\ threads' = [threads EXCEPT ![t].pc = "readctr",
                                            ![t].len = config.n]
    /\ UNCHANGED <<config, counterFile, delivered, history, faultsLeft>>

\* start_counter = load_counter(); end_counter = min(...)
TaskLoadCounter(t) ==
    /\ threads[t].pc = "readctr"
    /\ LET s == load_counter(counterFile) IN
       threads' = [threads EXCEPT
                     ![t].pc = "window",
                     ![t].start = s,
                     ![t].i = s,
                     ![t].end = EndCounter(s, StopperValue(config), threads[t].len)]
    /\ UNCHANGED <<config, counterFile, LOGS, delivered, history, faultsLeft>>

\* if start_counter >= len(email_list): log "All emails ...", return
\* else log "Preparing to send emails from index ..."
TaskWindow(t) ==
    /\ threads[t].pc = "window"
    /\ IF Exhausted(threads[t].start, threads[t].len)
         THEN /\ LOGS' = log_message(LOGS, "already_sent", 0)
              /\ threads' = Return(t)
         ELSE /\ LOGS' = log_message(LOGS, "preparing", threads[t].start)
              /\ threads' = Goto(t, "connect")
    /\ UNCHANGED <<config, counterFile, delivered, history, faultsLeft>>

\* Mutant of TaskConnect: the except clause logs the failure and falls through
\* into the loop instead of returning.
TaskConnectNoReturn(t) ==
    /\ threads[t].pc = "connect"
    /\ \/ /\ LOGS' = log_message(LOGS, "connected", 0)
          /\ threads' = [threads EXCEPT ![t].pc = "loop", ![t].session = "open"]
       \/ /\ LOGS' = log_message(LOGS, "err_connect", 0)
          /\ threads' = [threads EXCEPT ![t].pc = "loop", ![t].session = "open"]
    /\ UNCHANGED <<config, counterFile, delivered, history, faultsLeft>>

\* try: smtplib.SMTP(...); server.starttls(); server.login(...)
\* The constructor may raise (no server object exists), or starttls/login may
\* raise after the connection was opened; the except clause logs and returns
\* without closing it.
TaskConnect(t) ==
    /\ threads[t].pc = "connect"
    /\ \/ /\ LOGS' = log_message(LOGS, "connected", 0)
          /\ threads' = [threads EXCEPT ![t].pc = "loop", ![t].session = "open"]
       \/ /\ LOGS' = log_message(LOGS, "err_connect", 0)
          /\ threads' = Return(t)
       \/ /\ LOGS' = log_message(LOGS, "err_connect", 0)
          /\ threads' = [threads EXCEPT ![t] = EndedThread("done", "open")]
    /\ UNCHANGED <<config, counterFile, delivered, history, faultsLeft>>

\* for i in range(start_counter, end_counter): build the message; after the
\* last index, server.quit().
\* template_body.format(greeting=greeting) is outside every try block: a body
\* it rejects ends the thread with an unhandled exception.
TaskLoop(t) ==
    /\ threads[t].pc = "loop"
    /\ IF threads[t].i >= threads[t].end
         THEN \* the loop is over: server.quit(), which closes the connection
              \* and raises when the server has dropped it already
              /\ \/ threads' = [threads EXCEPT ![t].pc = "finish",
                                               ![t].session = "closed"]
                 \/ threads' = [threads EXCEPT ![t] = EndedThread("crashed", "closed")]
              /\ UNCHANGED <<LOGS, faultsLeft>>
         ELSE IF config.template = "bad"
         THEN /\ threads' = Raise(t)
              /\ UNCHANGED <<LOGS, faultsLeft>>
         ELSE CASE ResumeMissing(config) ->
                     /\ LOGS' = log_message(LOGS, "warn_resume_missing", threads[t].i)
                     /\ threads' = Goto(t, "send")
                     /\ UNCHANGED faultsLeft
                [] config.resume = "exists" ->
                     \/ /\ threads' = Goto(t, "send")
                        /\ UNCHANGED <<LOGS, faultsLeft>>
                     \/ \* reading the resume raised: warning, message still sent
                        /\ faultsLeft > 0
                        /\ faultsLeft' = faultsLeft - 1
                        /\ LOGS' = log_message(LOGS, "warn_attach", threads[t].i)
                        /\ threads' = Goto(t, "send")
                [] OTHER ->
                     /\ threads' = Goto(t, "send")
                     /\ UNCHANGED <<LOGS, faultsLeft>>
    /\ UNCHANGED <<config, counterFile, delivered, history>>

\* server.sendmail(...): on success log SUCCESS (i+1 / len), on an exception
\* log the error and go on with the next index.
TaskSendmail(t) ==
    /\ threads[t].pc = "send"
    /\ \/ /\ LOGS' = log_message(LOGS, "success", CurrentCounter(threads[t].i))
          /\ threads' = [threads EXCEPT ![t].pc = "save",
                                        ![t].hist = Append(@, "ok")]
          /\ delivered' = [delivered EXCEPT ![threads[t].i] = @ + 1]
          /\ UNCHANGED <<sendFailed, faultsLeft>>
       \/ /\ faultsLeft > 0
          /\ faultsLeft' = faultsLeft - 1
          /\ LOGS' = log_message(LOGS, "err_send", threads[t].i)
          /\ threads' = [threads EXCEPT ![t].pc = "loop",
                                        ![t].hist = Append(@, "fail"),
                                        ![t].i = @ + 1]
          /\ sendFailed' = TRUE
          /\ UNCHANGED delivered
    /\ UNCHANGED <<config, counterFile, nResets, overlapped, saveFailed>>

\* save_counter(current_counter); time.sleep(5).  open(..., 'w') may raise
\* (file untouched) or the write may fail after the file was truncated.
TaskSaveCounter(t) ==
    /\ threads[t].pc = "save"
    /\ \/ /\ counterFile' = CurrentCounter(threads[t].i)
          /\ threads' = [threads EXCEPT ![t].pc = "loop", ![t].i = @ + 1]
          /\ UNCHANGED <<saveFailed, faultsLeft>>
       \/ /\ faultsLeft > 0
          /\ faultsLeft' = faultsLeft - 1
          /\ counterFile' \in {counterFile, Corrupt}
          /\ threads' = [threads EXCEPT ![t].pc = "saveerr", ![t].unsaved = TRUE]
          /\ saveFailed' = TRUE
    /\ UNCHANGED <<config, LOGS, delivered, nResets, overlapped, sendFailed>>

\* except Exception as e: log_message(f"ERROR sending to {receiver}: {e}")
\* reached from a failed save_counter
TaskSaveError(t) ==
    /\ threads[t].pc = "saveerr"
    /\ LOGS' = log_message(LOGS, "err_send", threads[t].i)
    /\ threads' = [threads EXCEPT ![t].pc = "loop", ![t].i = @ + 1]
    /\ UNCHANGED <<config, counterFile, delivered, history, faultsLeft>>

\* log_message("Batch finished. SMTP server connection closed.")
TaskFinish(t) ==
    /\ threads[t].pc = "finish"
    /\ LOGS' = log_message(LOGS, "finished", 0)
    /\ threads' = Return(t)
    /\ UNCHANGED <<config, counterFile, delivered, history, faultsLeft>>

\* The statements a run executes when no save_counter call raises.
TaskNoSaveFault(t) ==
    \/ TaskClear(t)
    \/ TaskStarted(t)
    \/ TaskValidate(t)
    \/ TaskLoadCsv(t)
    \/ TaskLoadCounter(t)
    \/ TaskWindow(t)
    \/ TaskConnect(t)
    \/ TaskLoop(t)
    \/ TaskSendmail(t)
    \/ TaskSaveCounter(t)
    \/ TaskFinish(t)

send_emails_task(t) ==
    \/ TaskNoSaveFault(t)
    \/ TaskSaveError(t)

\* Requests to /api/send may arrive at any time.
start_any ==
    /\ NStarted < MaxRuns
    /\ start_sending

\* Requests to /api/send arrive only when no run is active (an operator who
\* waits for "Batch finished" before pressing Send again).
start_idle ==
    /\ NStarted < MaxSeqRuns
    /\ ActiveSet = {}
    /\ start_sending

\* Overlapping requests: every interleaving of the threads they start, in an
\* environment without per-message faults (the handler of a failed
\* save_counter is then never entered).
Next ==
    \/ start_any
    \/ \E t \in Tids : TaskNoSaveFault(t)

Spec == Init /\ [][Next]_vars

\* A campaign of runs one after the other, the operator never resetting the
\* counter.
NextSeq ==
    \/ start_idle
    \/ \E t \in Tids : send_emails_task(t)

SpecSeq == InitSeq /\ [][NextSeq]_vars

\* Consecutive runs with an operator who may reset the counter at any moment,
\* also in the middle of a run.
NextReset ==
    \/ start_idle
    \/ reset_counter
    \/ \E t \in Tids : send_emails_task(t)

SpecReset == InitSeq /\ [][NextReset]_vars

\* ================================================================ claims
InLoop == {"send", "save", "saveerr"}
AfterWindow == {"connect", "loop", "send", "save", "saveerr", "finish"}
TerminalEvents ==
    {"err_config", "err_csv", "err_nocol", "already_sent", "err_connect", "finished"}

Cursor == load_counter(counterFile)

LastEvent(L) == IF Len(L) = 0 THEN "none" ELSE L[Len(L)][1]

\* Number of leading successful sends of a run's history.
InitialStreak(h) ==
    LET bad == { k \in 1..Len(h) : h[k] # "ok" }
    IN  IF bad = {} THEN Len(h)
        ELSE (CHOOSE k \in bad : \A j \in bad : k <= j) - 1

\* The success events of the log, in order.
SuccessEvents(L) == SelectSeq(L, LAMBDA e : e[1] = "success")

\* ---------------------------------------------------------------- C1
\* C1: at most one dispatch run is active at any time: a POST /api/send that
\* arrives while a run is active never results in a second send_emails_task
\* executing concurrently.  (Stated as the claim; start_sending has no guard.)
C1_SingleActiveRun == Cardinality(ActiveSet) <= 1

\* ---------------------------------------------------------------- C2
\* C2: over consecutive (non-overlapping) runs on an unchanged list, with no
\* reset and every cursor save succeeding, a run never calls sendmail for an
\* index below the cursor it read at its start, the index it is about to send
\* has not been delivered before, and every index is delivered at most once.
C2_NoResend ==
    (~overlapped /\ nResets = 0 /\ ~saveFailed) =>
        /\ \A t \in Tids :
              threads[t].pc \in InLoop => threads[t].i >= threads[t].start
        /\ \A t \in Tids :
              threads[t].pc = "send" => delivered[threads[t].i] = 0
        /\ \A k \in DOMAIN delivered : delivered[k] <= 1

\* A later run, started at a cursor a previous run left, has just delivered.
C2_Witness ==
    /\ ~overlapped /\ nResets = 0 /\ ~saveFailed
    /\ \E t \in Tids :
          /\ t >= 2
          /\ threads[t].pc = "save"
          /\ threads[t].start >= 1
          /\ delivered[0] = 1

\* ---------------------------------------------------------------- C3
\* C3: a failed send never lets the cursor move past the failed recipient:
\* when a run (no overlap, no reset, saves succeeding) has left its loop, the
\* persisted cursor equals start plus the length of the initial streak of
\* successes.  (Stated as the claim; the code saves i+1 after every success.)
C3_CursorStopsAtFirstFailure ==
    \A t \in Tids :
        (threads[t].pc = "finish" /\ ~overlapped /\ nResets = 0 /\ ~saveFailed) =>
            Cursor = threads[t].start + InitialStreak(threads[t].hist)

\* ---------------------------------------------------------------- C4
\* C4: every value a run stores in the counter file is greater than or equal
\* to the value persisted just before that write, also when requests overlap.
\* (Stated as the claim.)
C4_CursorNonDecreasing ==
    [][ \A t \in Tids :
          (threads[t].pc = "save" /\ threads'[t].pc = "loop") =>
              load_counter(counterFile') >= load_counter(counterFile) ]_vars

\* ---------------------------------------------------------------- C5
\* C5: batch window bound: once a run has computed its window, end - start <=
\* stopper and end <= len(email_list); the run calls sendmail at most stopper
\* times and only for indices in [start, len(email_list)).
C5_WindowBound ==
    \A t \in Tids :
        threads[t].pc \in ({"window"} \cup AfterWindow) =>
            /\ threads[t].end - threads[t].start <= StopperValue(config)
            /\ threads[t].end <= threads[t].len
            /\ Len(threads[t].hist) <= StopperValue(config)
            /\ threads[t].pc \in InLoop =>
                  /\ threads[t].start <= threads[t].i
                  /\ threads[t].i < threads[t].len

\* A run whose window was cut by the stopper, not by the end of the list, has
\* made all its sendmail calls.
C5_Witness ==
    \E t \in Tids :
        /\ threads[t].pc = "finish"
        /\ Len(threads[t].hist) = StopperValue(config)
        /\ threads[t].end < threads[t].len

\* ---------------------------------------------------------------- C6
\* C6: idempotent exhaustion: a run that read a cursor >= len(email_list) ends
\* with its next step, which appends exactly the "already sent" event, having
\* sent nothing, opened no SMTP session and left the counter file alone; and
\* once the cursor has reached the list length no step of any later run
\* changes it.
C6_IdempotentExhaustion ==
    [][ /\ \A t \in Tids :
             ( /\ threads[t].pc = "window"
               /\ threads[t].start >= threads[t].len
               /\ threads'[t] # threads[t] ) =>
                 /\ threads[t].hist = <<>>
                 /\ threads[t].session = "none"
                 /\ threads'[t] = EndedThread("done", "none")
                 /\ LOGS' = Append(LOGS, <<"already_sent", 0>>)
                 /\ counterFile' = counterFile
                 /\ delivered' = delivered
        /\ (config.file = "list" /\ Cursor >= config.n /\ nResets' = nResets) =>
              counterFile' = counterFile ]_vars

\* A run on a non-empty, fully processed list has ended with "already sent".
C6_Witness ==
    /\ config.n >= 1
    /\ Cursor = config.n
    /\ LastEvent(LOGS) = "already_sent"
    /\ ActiveSet = {}
    /\ \A k \in 0..(config.n - 1) : delivered[k] = 1

\* ---------------------------------------------------------------- C7
\* C7: campaign progress when every send (and every save) succeeds, runs not
\* overlapping and no reset: a run that has left its loop sent exactly the
\* indices [start, min(start+stopper, n)), logged one success event per index
\* in ascending order and left cursor = min(start+stopper, n) > start; at every
\* moment each index below the cursor (or just sent and about to be saved) has
\* been delivered exactly once and no other index has been delivered.
C7_AllSuccessProgress ==
    (~overlapped /\ nResets = 0 /\ ~sendFailed /\ ~saveFailed) =>
        /\ \A t \in Tids :
              threads[t].pc = "finish" =>
                LET e == Min(threads[t].start + StopperValue(config), config.n)
                IN  /\ Len(threads[t].hist) = e - threads[t].start
                    /\ \A k \in 1..Len(threads[t].hist) : threads[t].hist[k] = "ok"
                    /\ Cursor = e
                    /\ Cursor > threads[t].start
                    /\ SuccessEvents(LOGS) =
                          [k \in 1..(e - threads[t].start) |->
                              <<"success", threads[t].start + k>>]
        /\ \A k \in DOMAIN delivered :
              delivered[k] =
                 IF \/ k < Cursor
                    \/ \E t \in Tids : threads[t].pc = "save" /\ threads[t].i = k
                 THEN 1 ELSE 0

\* Stopper 1 on the longest list: the runs sent one index each, the cursor has
\* reached the list length and a further run found nothing to send.
C7_Witness ==
    /\ ~overlapped /\ nResets = 0 /\ ~sendFailed /\ ~saveFailed
    /\ config.n = MaxLen /\ config.has_stopper /\ config.stopper = 1
    /\ Cursor = config.n
    /\ \A k \in 0..(config.n - 1) : delivered[k] = 1
    /\ NStarted = MaxLen + 1
    /\ ActiveSet = {}
    /\ LastEvent(LOGS) = "already_sent"

\* ---------------------------------------------------------------- C8
\* C8: every run ends by appending a terminal event (an error event, "already
\* sent" or "batch finished") as its last log entry; no failure ends the
\* thread with an unhandled exception.  (Stated as the claim.)
C8_RunEndsWithTerminalEvent ==
    [][ \A t \in Tids :
          (Active(t) /\ threads'[t].pc \in Ended) =>
              /\ threads'[t].pc = "done"
              /\ LOGS' # LOGS
              /\ LastEvent(LOGS') \in TerminalEvents ]_vars

\* ---------------------------------------------------------------- C9
\* C9: the SMTP session is released on every exit path: a run that has ended
\* has not left a connection it opened unclosed.  (Stated as the claim.)
C9_SessionReleased ==
    \A t \in Tids : threads[t].pc \in Ended => threads[t].session # "open"

\* ---------------------------------------------------------------- C10
\* C10: configuration completeness is a precondition: when the sender
\* credentials, the stopper, the recipient file or the template is absent, the
\* run stops after validation, before loading recipients.  (Stated as the
\* claim; the code checks the credentials and the file only.)
C10_IncompleteConfigStops ==
    ~( /\ config.creds
       /\ config.has_stopper
       /\ config.file # "absent"
       /\ config.template # "absent" ) =>
        \A t \in Tids :
            /\ threads[t].pc \in {NotStarted, "clear", "started", "validate", "done"}
            /\ threads[t].session = "none"

\* ---------------------------------------------------------------- C11
\* C11: aborting errors leave the campaign untouched.  No step a run takes
\* before its loop calls sendmail or writes the counter file; when the loading
\* of the recipients fails (file missing or unparseable, no "email" column)
\* the run's next step appends the error event and ends it, no SMTP session
\* having been opened; when connect, STARTTLS or login fails the step appends
\* the error event and ends the run.  Over consecutive runs without reset the
\* persisted cursor is therefore the one the run read at its start.
BeforeLoop == {"clear", "started", "validate", "load", "readctr", "window", "connect"}

C11_AbortLeavesCampaignUntouched ==
    [][ \A t \in Tids :
          /\ (threads[t].pc \in BeforeLoop /\ threads'[t] # threads[t]) =>
                /\ threads[t].hist = <<>>
                /\ threads'[t].hist = <<>>
                /\ counterFile' = counterFile
                /\ delivered' = delivered
          /\ (/\ threads[t].pc = "load"
              /\ config.file \in {"unparseable", "nocol"}
              /\ threads'[t] # threads[t]) =>
                /\ threads'[t] = EndedThread("done", "none")
                /\ LOGS' = Append(LOGS, <<(IF config.file = "nocol"
                                            THEN "err_nocol" ELSE "err_csv"), 0>>)
          /\ (threads[t].pc = "connect" /\ threads'[t] # threads[t]) =>
                \/ /\ LastEvent(LOGS') = "connected"
                   /\ threads'[t].pc = "loop"
                   /\ threads'[t].session = "open"
                \/ /\ LOGS' = Append(LOGS, <<"err_connect", 0>>)
                   /\ threads'[t].pc = "done"
                   /\ Cursor = threads[t].start ]_vars

\* A later run of a campaign ended on a failed connection; the cursor and the
\* deliveries are those the earlier run left.
C11_Witness ==
    /\ LastEvent(LOGS) = "err_connect"
    /\ ActiveSet = {}
    /\ NStarted >= 2
    /\ Cursor >= 1
    /\ \A k \in DOMAIN delivered : delivered[k] = (IF k < Cursor THEN 1 ELSE 0)

\* ---------------------------------------------------------------- C12
\* C12: while a run is active the counter file and the log are written only
\* by that run: a step that is not a step of the active run (the reset route
\* in particular) changes neither of them.  (Stated as the claim;
\* reset_counter has no check for an active run.)
C12_RunOwnsCursorAndLog ==
    [][ ( /\ ActiveSet # {}
          /\ \A t \in ActiveSet : threads'[t] = threads[t] ) =>
            /\ counterFile' = counterFile
            /\ LOGS' = LOGS ]_vars

\* Position in a run's history of its last successful send, 0 if there is none.
LastOk(h) ==
    LET ok == { k \in 1..Len(h) : h[k] = "ok" }
    IN  IF ok = {} THEN 0 ELSE CHOOSE k \in ok : \A j \in ok : j <= k

WarningEvents(L) == SelectSeq(L, LAMBDA e : e[1] = "warn_resume_missing")

\* ---------------------------------------------------------------- C13
\* C13: attachment resilience: when a resume is configured but its file does
\* not exist, every message of the window is still handed to sendmail, each
\* preceded by exactly one "resume not found" warning (one per message, in
\* index order), the run does not abort (it leaves the loop only after the
\* whole window) and the cursor advances as without an attachment: to one past
\* the last successful send, to the end of the window when nothing fails.
C13_MissingResumeWarnsAndSends ==
    config.resume = "missing" =>
        \A t \in Tids :
            threads[t].pc \in {"loop", "send", "save", "saveerr", "finish"} =>
                LET composed == Len(threads[t].hist)
                                  + (IF threads[t].pc = "send" THEN 1 ELSE 0)
                IN  /\ WarningEvents(LOGS) =
                          [k \in 1..composed |->
                              <<"warn_resume_missing", threads[t].start + k - 1>>]
                    /\ threads[t].pc = "send" =>
                          LOGS[Len(LOGS)] = <<"warn_resume_missing", threads[t].i>>
                    /\ threads[t].pc = "finish" =>
                          /\ Len(threads[t].hist) = threads[t].end - threads[t].start
                          /\ ~saveFailed =>
                                Cursor = threads[t].start + LastOk(threads[t].hist)
                          /\ (~saveFailed /\ ~sendFailed) => Cursor = threads[t].end

\* A run without the resume file went through a window of two messages, one
\* of them refused by the relay, and left its loop.
C13_Witness ==
    /\ config.resume = "missing"
    /\ \E t \in Tids :
          /\ threads[t].pc = "finish"
          /\ threads[t].hist = <<"fail", "ok">>
          /\ Len(WarningEvents(LOGS)) = 2
          /\ Cursor = 2

\* List indices the relay has accepted a message for that the persisted cursor
\* does not cover: a run started now would send to them again.
Unreflected == { k \in DOMAIN delivered : delivered[k] > 0 /\ k >= Cursor }

\* ---------------------------------------------------------------- C14
\* C14: crash window of one send: over consecutive runs without reset, in
\* every state at most one list index has a confirmed send that the persisted
\* cursor does not reflect, also when a save_counter call fails.  (Stated as
\* the claim; after a failed save the loop goes on sending.)
C14_CrashWindowOne ==
    (~overlapped /\ nResets = 0) => Cardinality(Unreflected) <= 1

\* ---------------------------------------------------------------- C15
\* C15: success ordering: with a single active run and no reset, whenever the
\* log holds the success event reporting progress (i+1)/len, the persisted
\* cursor is at least i+1.  (Stated as the claim; the code appends the event
\* before it calls save_counter.)
C15_CursorPersistedBeforeSuccessEvent ==
    (~overlapped /\ nResets = 0) =>
        \A k \in 1..Len(LOGS) :
            LOGS[k][1] = "success" => Cursor >= LOGS[k][2]

\* ---------------------------------------------------------------- C16
\* C16: a run that has reached its send loop attempts every index of its
\* window exactly once, in ascending order, whichever sends fail: the k-th
\* sendmail call is for index start + k - 1, a failed call appends one error
\* event naming that index and the run goes on with the next index, and the
\* run leaves the loop (or ends) only when every index of [start, end) has
\* been attempted.  (Stated as the claim.)
C16_WindowAttemptedOnceAscending ==
    [][ \A t \in Tids :
          /\ threads[t].pc = "send" =>
                threads[t].i = threads[t].start + Len(threads[t].hist)
          /\ (threads[t].pc = "send" /\ threads'[t].pc = "loop") =>
                /\ LOGS' = Append(LOGS, <<"err_send", threads[t].i>>)
                /\ threads'[t].i = threads[t].i + 1
          /\ (threads[t].pc = "loop" /\ threads'[t].pc \notin {"loop", "send"}) =>
                Len(threads[t].hist) = threads[t].end - threads[t].start ]_vars

IsPrefix(a, b) == Len(a) <= Len(b) /\ SubSeq(b, 1, Len(a)) = a

\* ---------------------------------------------------------------- C17
\* C17: the log is append-only within a run and emptied only at the start of
\* a run: while a run that has cleared the log is still active, whatever a
\* GET /api/logs returned before a step is a prefix of what it returns after
\* the step, for every interleaving of triggers and task steps; so every
\* entry a reader saw keeps its position and content until the run's final
\* event.  (Stated as the claim; a trigger during the run clears the log.)
C17_LogAppendOnlyWithinRun ==
    [][ (\E t \in Tids : Active(t) /\ threads[t].pc # "clear") =>
            IsPrefix(get_logs, get_logs') ]_vars

\* ---------------------------------------------------------------- C18
\* C18: in a run without an overlapping run and without reset, none of whose
\* save_counter calls failed, the persisted cursor after the loop is one plus
\* the largest index of [start, end) whose send succeeded, or start when no
\* send of the window succeeded, whatever happened at smaller indices.
C18_CursorAfterLastSuccess ==
    \A t \in Tids :
        ( /\ threads[t].pc = "finish"
          /\ ~overlapped /\ nResets = 0
          /\ ~threads[t].unsaved ) =>
            LET ok == { k \in threads[t].start..(threads[t].end - 1) :
                          threads[t].hist[k - threads[t].start + 1] = "ok" }
            IN  /\ Len(threads[t].hist) = threads[t].end - threads[t].start
                /\ Cursor = IF ok = {} THEN threads[t].start
                            ELSE 1 + (CHOOSE k \in ok : \A j \in ok : j <= k)

\* The first index of a window of two failed, the second succeeded (cursor
\* past the failed index).
C18_Witness ==
    \E t \in Tids :
        /\ threads[t].pc = "finish"
        /\ ~overlapped /\ nResets = 0 /\ ~threads[t].unsaved
        /\ threads[t].hist = <<"fail", "ok">>
        /\ threads[t].start = 0
        /\ Cursor = 2

====
